---------------------------- MODULE Spec2Model ----------------------------
(***************************************************************************)
(* A model of IQmol's basis-set container, src/Data/ShellList.C.           *)
(*                                                                         *)
(* Four specifications share the module's variables:                      *)
(*   Spec      construction of the shell list from a raw ShellData record  *)
(*             and the aggregate queries made on the finished container;   *)
(*   SpecEval  sequential grid-point evaluation on a finished container;   *)
(*   SpecConc  two threads evaluating densityValues on one instance;       *)
(*   SpecSize  resize() on containers with very many shells.               *)
(*                                                                         *)
(* Doubles are modelled by integers (all sums and products here are exact  *)
(* for the small values used); unsigned is a 32-bit machine integer.       *)
(***************************************************************************)
EXTENDS Integers, Sequences, FiniteSets, TLC

VARIABLES
    shellData,      \* the raw record given to the constructor
    pc,             \* "ctor" while the constructor's loop runs, then "ready"
    shell,          \* the constructor's loop index (0-based, as in the code)
    cnt,            \* the constructor's running primitive counter
    shells,         \* List<Shell*>: the container's shell sequence
    m_overlap,      \* TRUE when setOverlapMatrix was called
    m_nBasis,       \* the basis count cached by resize()
    pairSize,       \* m_basisPairValues.size(), a 32-bit value
    warned,         \* TRUE when resize() logged its rounding warning
    ret,            \* the last query (with its result) or evaluation call (with its point)
    sig,            \* Shell::evaluate(x,y,z): sig[s][p] is FALSE where it returns null
    m_basisValues,  \* the basis-value buffer
    m_sigBasis,     \* the significant-index buffer
    m_basisPairValues,      \* the basis-pair buffer
    m_densityVectors,       \* the bound density matrices
    m_densityValues,        \* the density output buffer
    m_orbitalIndices,       \* the requested orbital rows
    m_orbitalCoefficients,  \* the bound coefficient matrix
    m_orbitalValues,        \* the orbital output buffer
    tally,          \* SpecSize: the number of shells of each kind in the list
    guarded,        \* SpecConc: TRUE when the callers hold a mutex around each call
    lock,           \* SpecConc: the thread holding the mutex, or 0
    th              \* SpecConc: each thread's position in densityValues and its locals

ctorVars == <<shellData, pc, shell, cnt, shells, m_overlap, m_nBasis, pairSize, warned>>
evalVars == <<sig, m_basisValues, m_sigBasis, m_basisPairValues, m_densityVectors,
              m_densityValues, m_orbitalIndices, m_orbitalCoefficients, m_orbitalValues>>
sizeVars == <<tally>>
concVars == <<guarded, lock, th>>
vars == <<ctorVars, ret, evalVars, sizeVars, concVars>>

----------------------------------------------------------------------------
(* Bounds of the model. *)
MaxEntries == 3     \* raw shell entries in a record
MaxPrims   == 2     \* primitives per raw entry

(* unsigned is 32 bits wide; U32Half is 2^16, used to multiply without     *)
(* leaving the range of TLC's integers.                                     *)
U32Half == 65536

(* Constants::BohrToAngstrom^-2 in units of 1e-4 (0.5291772^-2 = 3.5711).  *)
convExponents == 35711

----------------------------------------------------------------------------
(* The Shell capability (Shell.h / Shell.C, not part of ShellList.C).      *)

AngularMomentum == {"S", "P", "D5", "D6", "F7", "F10", "G9", "G15"}

\* Shell::nBasis(): the basis-function count fixed by the shell's kind.
Shell_nBasis(kind) ==
    CASE kind = "S"   -> 1
      [] kind = "P"   -> 3
      [] kind = "D5"  -> 5
      [] kind = "D6"  -> 6
      [] kind = "F7"  -> 7
      [] kind = "F10" -> 10
      [] kind = "G9"  -> 9
      [] kind = "G15" -> 15

\* new Data::Shell(kind, atom, pos, expts, coefs); the position is
\* geometry.position(atom), a function of atom, and is not stored apart.
NewShell(kind, atom, expts, coefs) ==
    [kind |-> kind, atom |-> atom, expts |-> expts, coefs |-> coefs]

----------------------------------------------------------------------------
(* Construction, ShellList::ShellList.                                     *)

\* unsigned atom(shellData.shellToAtom.at(shell)-1); the record's atom
\* indices are 1-based, so the subtraction never wraps.
AtomOf(sd, s) == sd.shellToAtom[s] - 1

\* The primitive loop of one entry: exponents converted from bohr to
\* angstrom, coefficients copied, SP coefficients copied when the record
\* has any.  p is the value of cnt on entry.
PrimExpts(sd, s, p) ==
    [i \in 1..sd.shellPrimitives[s] |-> sd.exponents[p + i] * convExponents]
PrimCoefs(sd, s, p) ==
    [i \in 1..sd.shellPrimitives[s] |-> sd.contractionCoefficients[p + i]]
PrimCoefsSP(sd, s, p) ==
    IF sd.contractionCoefficientsSP = <<>> THEN <<>>
    ELSE [i \in 1..sd.shellPrimitives[s] |-> sd.contractionCoefficientsSP[p + i]]

\* A plausible slip: the SP shell's P part built from the primary coefficients.
ShellsForTypeNoSP(code, atom, expts, coefs, coefsSP) ==
    CASE code = 0  -> <<NewShell("S", atom, expts, coefs)>>
      [] code = -1 -> <<NewShell("S", atom, expts, coefs),
                        NewShell("P", atom, expts, coefs)>>
      [] code = 1  -> <<NewShell("P", atom, expts, coefs)>>
      [] code = -2 -> <<NewShell("D5", atom, expts, coefs)>>
      [] code = 2  -> <<NewShell("D6", atom, expts, coefs)>>
      [] code = -3 -> <<NewShell("F7", atom, expts, coefs)>>
      [] code = 3  -> <<NewShell("F10", atom, expts, coefs)>>
      [] code = -4 -> <<NewShell("G9", atom, expts, coefs)>>
      [] code = 4  -> <<NewShell("G15", atom, expts, coefs)>>
      [] OTHER     -> <<>>

\* The switch on shellData.shellTypes.at(shell): the shells appended.
ShellsForType(code, atom, expts, coefs, coefsSP) ==
    CASE code = 0  -> <<NewShell("S", atom, expts, coefs)>>
      [] code = -1 -> <<NewShell("S", atom, expts, coefs),
                        NewShell("P", atom, expts, coefsSP)>>
      [] code = 1  -> <<NewShell("P", atom, expts, coefs)>>
      [] code = -2 -> <<NewShell("D5", atom, expts, coefs)>>
      [] code = 2  -> <<NewShell("D6", atom, expts, coefs)>>
      [] code = -3 -> <<NewShell("F7", atom, expts, coefs)>>
      [] code = 3  -> <<NewShell("F10", atom, expts, coefs)>>
      [] code = -4 -> <<NewShell("G9", atom, expts, coefs)>>
      [] code = 4  -> <<NewShell("G15", atom, expts, coefs)>>
      [] OTHER     -> <<>>

RecognizedCodes == {0, -1, 1, -2, 2, -3, 3, -4, 4}

\* A plausible slip: an unrecognized entry skipped before its primitives
\* are read, so the running primitive counter is not advanced.
LoopBodySkipEarly(sd, s, p) ==
    IF sd.shellTypes[s] \notin RecognizedCodes
    THEN [add |-> <<>>, cnt |-> p]
    ELSE [add |-> ShellsForType(sd.shellTypes[s], AtomOf(sd, s), PrimExpts(sd, s, p),
                                PrimCoefs(sd, s, p), PrimCoefsSP(sd, s, p)),
          cnt |-> p + sd.shellPrimitives[s]]

\* One iteration of the constructor's loop over the raw entries: the
\* shells it appends and the primitive counter it leaves.
LoopBody(sd, s, p) ==
    [add |-> ShellsForType(sd.shellTypes[s], AtomOf(sd, s), PrimExpts(sd, s, p),
                           PrimCoefs(sd, s, p), PrimCoefsSP(sd, s, p)),
     cnt |-> p + sd.shellPrimitives[s]]

----------------------------------------------------------------------------
(* unsigned arithmetic.  A 32-bit value is held as <<high, low>>, two      *)
(* 16-bit halves, so that products stay inside TLC's integers.              *)

ToU32(n)  == <<(n \div U32Half) % U32Half, n % U32Half>>
\* The number a 32-bit value below 2^31 stands for.
U32Val(u) == u[1] * U32Half + u[2]
IncU32(u) == IF u[2] = U32Half - 1 THEN <<(u[1] + 1) % U32Half, 0>>
                                   ELSE <<u[1], u[2] + 1>>
HalfU32(u)  == <<u[1] \div 2, (u[1] % 2) * (U32Half \div 2) + u[2] \div 2>>
TwiceU32(u) == <<(u[1] * 2 + u[2] \div (U32Half \div 2)) % U32Half, (u[2] * 2) % U32Half>>
\* The full product of two 16-bit values, as <<high, low>>.
Mul16(a, b) ==
    LET t0  == (a % 256) * b
        t1  == (a \div 256) * b
        low == (t1 % 256) * 256 + t0
    IN  <<t1 \div 256 + low \div U32Half, low % U32Half>>
\* x * y modulo 2^32.
MulU32(x, y) ==
    LET ll == Mul16(x[2], y[2])
    IN  <<(ll[1] + Mul16(x[1], y[2])[2] + Mul16(x[2], y[1])[2]) % U32Half, ll[2]>>

----------------------------------------------------------------------------
(* Aggregate queries.                                                      *)

RECURSIVE NBasisUpTo(_, _)
NBasisUpTo(list, n) ==
    IF n = 0 THEN 0 ELSE NBasisUpTo(list, n - 1) + Shell_nBasis(list[n].kind)

\* ShellList::nBasis(): the sum of the shells' basis-function counts.
NBasis(list) == NBasisUpTo(list, Len(list))

\* The global basis offset of shell s (1-based): the counts of all shells before it.
BasisOffset(list, s) == NBasisUpTo(list, s - 1)

\* A plausible slip: the spherical and Cartesian d counts exchanged.
DumpCountSwapped(kind) ==
    CASE kind = "S"   -> 1
      [] kind = "P"   -> 3
      [] kind = "D5"  -> 6
      [] kind = "D6"  -> 5
      [] kind = "F7"  -> 7
      [] kind = "F10" -> 10
      [] kind = "G9"  -> 9
      [] kind = "G15" -> 15

\* The count dump() adds for one shell, from its own switch on the kind.
DumpCount(kind) ==
    CASE kind = "S"   -> 1
      [] kind = "P"   -> 3
      [] kind = "D5"  -> 5
      [] kind = "D6"  -> 6
      [] kind = "F7"  -> 7
      [] kind = "F10" -> 10
      [] kind = "G9"  -> 9
      [] kind = "G15" -> 15

RECURSIVE DumpSum(_, _)
DumpSum(list, n) ==
    IF n = 0 THEN 0 ELSE DumpSum(list, n - 1) + DumpCount(list[n].kind)

\* ShellList::dump(): the basis function check it prints.
Dump(list) == IF DumpSum(list, Len(list)) # NBasis(list) THEN "NOT OK" ELSE "OK"

\* ShellList::resize(): the size given to m_basisPairValues and whether
\* the rounding warning was logged, for m_nBasis = n.
Resize(n) ==
    LET prod == MulU32(ToU32(n), IncU32(ToU32(n)))
        size == HalfU32(prod)
    IN  IF TwiceU32(size) # prod THEN [size |-> IncU32(size), warned |-> TRUE]
                                 ELSE [size |-> size, warned |-> FALSE]

\* The loop of shellAtomOffsets() from shell k (1-based) on, with the
\* expected atom index atomIndex; the offsets it appends.
RECURSIVE ShellOffsetsFrom(_, _, _)
ShellOffsetsFrom(list, k, atomIndex) ==
    IF k > Len(list) THEN <<>>
    ELSE IF list[k].atom # atomIndex
         THEN <<k - 1>> \o ShellOffsetsFrom(list, k + 1, atomIndex + 1)
         ELSE ShellOffsetsFrom(list, k + 1, atomIndex)

\* A plausible slip: the expected atom index is never advanced.
RECURSIVE ShellOffsetsStuck(_, _)
ShellOffsetsStuck(list, k) ==
    IF k > Len(list) THEN <<>>
    ELSE IF list[k].atom # 0
         THEN <<k - 1>> \o ShellOffsetsStuck(list, k + 1)
         ELSE ShellOffsetsStuck(list, k + 1)
ShellAtomOffsetsStuck(list) == <<0>> \o ShellOffsetsStuck(list, 1)

\* ShellList::shellAtomOffsets()
ShellAtomOffsets(list) == <<0>> \o ShellOffsetsFrom(list, 1, 0)

RECURSIVE BasisOffsetsFrom(_, _, _)
BasisOffsetsFrom(list, k, atomIndex) ==
    IF k > Len(list) THEN <<>>
    ELSE IF list[k].atom # atomIndex
         THEN <<BasisOffset(list, k)>> \o BasisOffsetsFrom(list, k + 1, atomIndex + 1)
         ELSE BasisOffsetsFrom(list, k + 1, atomIndex)

\* ShellList::basisAtomOffsets()
BasisAtomOffsets(list) == <<0>> \o BasisOffsetsFrom(list, 1, 0)

----------------------------------------------------------------------------
(* The raw records the constructor is run on.                              *)

TypeCodes == -4..5      \* the nine codes of the checkpoint format and one unknown

\* Atom indices of a record: 1-based, starting at atom 1, each entry on the
\* atom of the one before it or on the next atom.
AtomLists(n) ==
    {a \in [1..n -> 1..n] :
        /\ n > 0 => a[1] = 1
        /\ \A i \in 2..n : a[i] \in {a[i-1], a[i-1] + 1}}

RECURSIVE SumSeq(_, _)
SumSeq(f, n) == IF n = 0 THEN 0 ELSE SumSeq(f, n - 1) + f[n]

\* The record with the given codes, atoms and primitive counts.  The
\* exponent and coefficient arrays hold a different value at every
\* position, so that a shell's lists tell which primitives it was given.
Record(codes, atoms, prims, sp) ==
    LET total == SumSeq(prims, Len(prims))
    IN  [shellTypes      |-> codes,
         shellToAtom     |-> atoms,
         shellPrimitives |-> prims,
         exponents       |-> [c \in 1..total |-> c],
         contractionCoefficients   |-> [c \in 1..total |-> 100 + c],
         contractionCoefficientsSP |-> IF sp THEN [c \in 1..total |-> 200 + c] ELSE <<>>,
         overlapMatrix   |-> <<1>>]

\* Three families of records, each free in what one part of the
\* constructor reads and fixed in the rest:
\*   every type code on every entry (one atom per entry);
\*   every primitive count on every entry (SP, S and unknown entries);
\*   every grouping of the entries by atom (SP, S and unknown entries).
AllCodeRecords(n) ==
    {Record(codes, [i \in 1..n |-> i], [i \in 1..n |-> 1 + (i % MaxPrims)], TRUE) :
        codes \in [1..n -> TypeCodes]}
AllPrimRecords(n) ==
    {Record(codes, [i \in 1..n |-> 1], prims, sp) :
        codes \in [1..n -> {-1, 5}], prims \in [1..n -> 1..MaxPrims], sp \in BOOLEAN}
AllAtomRecords(n) ==
    {Record(codes, atoms, [i \in 1..n |-> 1], TRUE) :
        codes \in [1..n -> {0, -1, 5}], atoms \in AtomLists(n)}

Records ==
    UNION {AllCodeRecords(n) \cup AllPrimRecords(n) \cup AllAtomRecords(n) : n \in 0..MaxEntries}

----------------------------------------------------------------------------
(* Spec: construction, then queries.                                       *)

Init ==
    /\ shellData \in Records
    /\ pc = "ctor"
    /\ shell = 0
    /\ cnt = 0
    /\ shells = <<>>
    /\ m_overlap = FALSE
    /\ m_nBasis = 0
    /\ pairSize = <<0, 0>>
    /\ warned = FALSE
    /\ ret = <<"none">>
    \* Spec follows the sizes of the buffers; SpecEval follows their contents.
    /\ sig = <<>>
    /\ m_basisValues = <<>>
    /\ m_sigBasis = <<>>
    /\ m_basisPairValues = <<>>
    /\ m_densityVectors = <<>>
    /\ m_densityValues = <<>>
    /\ m_orbitalIndices = <<>>
    /\ m_orbitalCoefficients = <<>>
    /\ m_orbitalValues = <<>>
    /\ tally = <<>>
    /\ guarded = FALSE
    /\ lock = 0
    /\ th = <<>>

\* One pass of the loop over the raw entries.
CtorEntry ==
    /\ pc = "ctor"
    /\ shell < Len(shellData.shellTypes)
    /\ LET body == LoopBody(shellData, shell + 1, cnt)
       IN  /\ shells' = shells \o body.add
           /\ cnt' = body.cnt
    /\ shell' = shell + 1
    /\ UNCHANGED <<shellData, pc, m_overlap, m_nBasis, pairSize, warned, ret, evalVars, sizeVars, concVars>>

\* After the loop: the overlap matrix is kept when its size fits, and the
\* buffers are sized by resize().
CtorFinish ==
    /\ pc = "ctor"
    /\ shell = Len(shellData.shellTypes)
    /\ LET n == NBasis(shells)
       IN  /\ m_overlap' = (Len(shellData.overlapMatrix) = ((n + 1) * n) \div 2)
           /\ m_nBasis' = n
           /\ pairSize' = Resize(n).size
           /\ warned' = Resize(n).warned
    /\ pc' = "ready"
    /\ UNCHANGED <<shellData, shell, cnt, shells, ret, evalVars, sizeVars, concVars>>

Query(name, value) ==
    /\ pc = "ready"
    /\ ret' = <<name, value>>
    /\ UNCHANGED <<ctorVars, evalVars, sizeVars, concVars>>

CallNBasis           == Query("nBasis", NBasis(shells))
CallDump             == Query("dump", Dump(shells))
CallShellAtomOffsets == Query("shellAtomOffsets", ShellAtomOffsets(shells))
CallBasisAtomOffsets == Query("basisAtomOffsets", BasisAtomOffsets(shells))

Next ==
    \/ CtorEntry
    \/ CtorFinish
    \/ CallNBasis
    \/ CallDump
    \/ CallShellAtomOffsets
    \/ CallBasisAtomOffsets

Spec == Init /\ [][Next]_vars

----------------------------------------------------------------------------
(* Claims about construction and the aggregate queries (under Spec).       *)

\* The primitives of the entries before entry e, whatever their codes.
PrimsBefore(sd, e) == SumSeq(sd.shellPrimitives, e - 1)
\* The part of a flat array that belongs to entry e.
SliceOf(arr, sd, e) ==
    [i \in 1..sd.shellPrimitives[e] |-> arr[PrimsBefore(sd, e) + i]]

\* The kinds the format's table gives for a type code.
TableKinds(code) ==
    CASE code = 0  -> <<"S">>
      [] code = -1 -> <<"S", "P">>
      [] code = 1  -> <<"P">>
      [] code = -2 -> <<"D5">>
      [] code = 2  -> <<"D6">>
      [] code = -3 -> <<"F7">>
      [] code = 3  -> <<"F10">>
      [] code = -4 -> <<"G9">>
      [] code = 4  -> <<"G15">>
      [] OTHER     -> <<>>

RECURSIVE ShellsBefore(_, _)
\* The number of shells the table gives for the entries before entry e.
ShellsBefore(sd, e) ==
    IF e = 1 THEN 0 ELSE ShellsBefore(sd, e - 1) + Len(TableKinds(sd.shellTypes[e - 1]))

AllRecognized(sd) == \A e \in 1..Len(sd.shellTypes) : sd.shellTypes[e] \in RecognizedCodes

\* C4: construction maps each raw entry, in record order, to shells by the
\* fixed table (0 S, 1 P, -2 D5, 2 D6, -3 F7, 3 F10, -4 G9, 4 G15, one
\* shell each; -1 an S with the primary coefficients followed by a P with
\* the SP coefficients), every shell on the atom of its entry minus 1, the
\* two shells of a -1 entry sharing one exponent list, and the shell list
\* is the concatenation of these insertions in entry order.
C4_TypeTable ==
    (pc = "ready" /\ AllRecognized(shellData)) =>
        LET n == Len(shellData.shellTypes)
        IN  /\ Len(shells) = ShellsBefore(shellData, n + 1)
            /\ \A e \in 1..n :
                 LET kinds == TableKinds(shellData.shellTypes[e])
                     at    == ShellsBefore(shellData, e)
                 IN  /\ \A j \in 1..Len(kinds) :
                          /\ shells[at + j].kind = kinds[j]
                          /\ shells[at + j].atom = shellData.shellToAtom[e] - 1
                     /\ shellData.shellTypes[e] = -1 =>
                          /\ shells[at + 1].coefs =
                                 SliceOf(shellData.contractionCoefficients, shellData, e)
                          /\ shells[at + 2].coefs =
                                 IF shellData.contractionCoefficientsSP = <<>> THEN <<>>
                                 ELSE SliceOf(shellData.contractionCoefficientsSP, shellData, e)
                          /\ shells[at + 1].expts = shells[at + 2].expts

\* C4 witness: a finished container built from an SP entry between two others.
C4_Witness ==
    /\ pc = "ready"
    /\ shellData.shellTypes = <<-3, -1, 4>>
    /\ shellData.contractionCoefficientsSP # <<>>
    /\ Len(shells) = 4
    /\ shells[2].kind = "S" /\ shells[3].kind = "P"

\* The constructor run to the end on a record, as a function of the record.
RECURSIVE BuildUpTo(_, _)
BuildUpTo(sd, n) ==
    IF n = 0 THEN [shells |-> <<>>, cnt |-> 0]
    ELSE LET before == BuildUpTo(sd, n - 1)
             body   == LoopBody(sd, n, before.cnt)
         IN  [shells |-> before.shells \o body.add, cnt |-> body.cnt]

\* The record with entry e given the code c.
WithCode(sd, e, c) == [sd EXCEPT !.shellTypes[e] = c]
\* A list without its elements from+1 .. to.
Without(list, from, to) == SubSeq(list, 1, from) \o SubSeq(list, to + 1, Len(list))

\* C5: an entry with an unrecognized type code adds no shell and does not
\* stop construction: the finished shell list is the list the same record
\* gives with that entry's code recognized, less that entry's shells, so
\* every later shell has the exponents and coefficients it would have had.
C5_UnknownSkipped ==
    pc = "ready" =>
        \A e \in 1..Len(shellData.shellTypes) :
            shellData.shellTypes[e] \notin RecognizedCodes =>
                \A c \in RecognizedCodes :
                    LET other == WithCode(shellData, e, c)
                        from  == Len(BuildUpTo(other, e - 1).shells)
                        to    == Len(BuildUpTo(other, e).shells)
                        full  == BuildUpTo(other, Len(other.shellTypes)).shells
                    IN  /\ to > from
                        /\ shells = Without(full, from, to)

\* C5 witness: a finished container whose first entry, of two primitives,
\* was unrecognized and whose later entries gave shells.
C5_Witness ==
    /\ pc = "ready"
    /\ Len(shellData.shellTypes) = 3
    /\ shellData.shellTypes[1] = 5
    /\ shellData.shellPrimitives[1] = 2
    /\ shellData.shellTypes[3] = -1
    /\ shellData.contractionCoefficientsSP # <<>>
    /\ Len(shells) >= 2
    /\ shells[Len(shells)].coefs = SliceOf(shellData.contractionCoefficientsSP, shellData, 3)

\* The atom boundaries of a shell list: the 0-based positions of the
\* shells that are on another atom than the shell before them.
Boundaries(list) == {k \in 1..(Len(list) - 1) : list[k + 1].atom # list[k].atom}
\* Shells grouped by increasing atom index.
GroupedByAtom(list) == \A k \in 1..(Len(list) - 1) : list[k].atom <= list[k + 1].atom
\* Grouped, starting on atom 0 and leaving out no atom index.
GroupedFromZero(list) ==
    /\ Len(list) > 0 => list[1].atom = 0
    /\ \A k \in 1..(Len(list) - 1) : list[k + 1].atom \in {list[k].atom, list[k].atom + 1}

\* What the claim says of a result of shellAtomOffsets().
OffsetsAtBoundaries(list, offsets) ==
    /\ offsets[1] = 0
    /\ Len(offsets) = 1 + Cardinality(Boundaries(list))
    /\ \A i \in 2..Len(offsets) : offsets[i] \in Boundaries(list)
    /\ \A i \in 2..(Len(offsets) - 1) : offsets[i] < offsets[i + 1]
    /\ (Len(list) = 3 /\ Boundaries(list) = {}) => offsets = <<0>>

\* C6 as stated: for every shell list grouped by increasing atom index
\* shellAtomOffsets() is 0 followed by the atom boundaries, one entry per
\* boundary, strictly increasing, and [0] for three shells on one atom.
C6_AsStated ==
    (ret[1] = "shellAtomOffsets" /\ GroupedByAtom(shells)) =>
        OffsetsAtBoundaries(shells, ret[2])

\* C6 amended: the same for every shell list that is grouped by atom,
\* starts on atom 0 and leaves out no atom index.
C6_Contiguous ==
    (ret[1] = "shellAtomOffsets" /\ GroupedFromZero(shells)) =>
        OffsetsAtBoundaries(shells, ret[2])

\* C6 witness: offsets taken of shells on atoms 0, 0, 1, 1.
C6_Witness ==
    /\ ret = <<"shellAtomOffsets", <<0, 2>>>>
    /\ Len(shells) = 4
    /\ shells[2].atom = 0 /\ shells[3].atom = 1 /\ shells[4].atom = 1

\* The basis functions the table gives for a type code.
TableBasis(code) ==
    CASE code = 0  -> 1
      [] code = -1 -> 4
      [] code = 1  -> 3
      [] code = -2 -> 5
      [] code = 2  -> 6
      [] code = -3 -> 7
      [] code = 3  -> 10
      [] code = -4 -> 9
      [] code = 4  -> 15
      [] OTHER     -> 0

RECURSIVE TableBasisSum(_, _)
TableBasisSum(codes, n) ==
    IF n = 0 THEN 0 ELSE TableBasisSum(codes, n - 1) + TableBasis(codes[n])

\* C9: for every constructed container nBasis() is the sum over the shells
\* of the per-kind counts 1, 3, 5, 6, 7, 10, 9, 15 that dump() adds up, so
\* dump() reports OK; a -1 entry contributes 4 and an unrecognized one 0.
C9_BasisCount ==
    /\ ret[1] = "nBasis" =>
          /\ ret[2] = DumpSum(shells, Len(shells))
          /\ ret[2] = TableBasisSum(shellData.shellTypes, Len(shellData.shellTypes))
    /\ ret[1] = "dump" => ret[2] = "OK"
    /\ pc = "ready" => m_nBasis = TableBasisSum(shellData.shellTypes, Len(shellData.shellTypes))

\* C9 witness: dump() run on a container holding d shells of both kinds.
C9_Witness ==
    /\ ret = <<"dump", "OK">>
    /\ shellData.shellTypes = <<-2, 2, -1>>
    /\ m_nBasis = 15

----------------------------------------------------------------------------
(* Grid-point evaluation.  Buffers are 0-based in the code and 1-based     *)
(* here: position i of a buffer is element i + 1 of its sequence.          *)

MaxEvalEntries == 2     \* raw entries of the containers evaluated
NPoints        == 2     \* grid points

Points == 1..NPoints
\* What an element of a buffer holds before anything is written to it.
Unset == -9
\* The null pointer evaluate(x,y,z) returns; a value array is never empty.
NULL   == <<>>

\* Shell::evaluate(gridPoint) for shell number s of the list at grid point
\* p: one value per basis function of the shell.
Shell_evaluate(list, s, p) ==
    [i \in 1..Shell_nBasis(list[s].kind) |-> ((3 * s + 5 * p + 2 * i) % 7) - 3]

\* Shell::evaluate(x, y, z): null where the shell is insignificant at the point.
Shell_evaluateXYZ(list, s, p, sg) ==
    IF sg[s][p] THEN Shell_evaluate(list, s, p) ELSE NULL

\* buf with values written at positions offset .. offset + Len(values) - 1.
WriteAt(buf, offset, values) ==
    [i \in 1..Len(buf) |->
        IF offset < i /\ i <= offset + Len(values) THEN values[i - offset] ELSE buf[i]]

RECURSIVE SumF(_, _, _)
\* f[lo] + ... + f[hi], the sum a for loop accumulates.
SumF(f, lo, hi) == IF lo > hi THEN 0 ELSE SumF(f, lo, hi - 1) + f[hi]

\* ShellList::shellValues(gridPoint): the loop from shell s on.
RECURSIVE ShellValuesFrom(_, _, _, _, _)
ShellValuesFrom(list, p, s, offset, buf) ==
    IF s > Len(list) THEN buf
    ELSE LET values == Shell_evaluate(list, s, p)
         IN  ShellValuesFrom(list, p, s + 1, offset + Shell_nBasis(list[s].kind),
                             WriteAt(buf, offset, values))

\* A plausible slip: an insignificant shell's slice is skipped, not zeroed.
NullFillSkipped(buf, offset, nb) == buf

\* The else branch of shellValues(x,y,z): nb zeros written at offset.
NullFill(buf, offset, nb) == WriteAt(buf, offset, [i \in 1..nb |-> 0])

\* ShellList::shellValues(x, y, z): the loop from shell s on.
RECURSIVE ShellValuesXYZFrom(_, _, _, _, _, _)
ShellValuesXYZFrom(list, p, sg, s, offset, buf) ==
    IF s > Len(list) THEN buf
    ELSE LET values == Shell_evaluateXYZ(list, s, p, sg)
             nb     == Shell_nBasis(list[s].kind)
         IN  ShellValuesXYZFrom(list, p, sg, s + 1, offset + nb,
                                IF values # NULL THEN WriteAt(buf, offset, values)
                                                 ELSE NullFill(buf, offset, nb))

\* ShellList::shellPairValues: the pair values written from row i on.
RECURSIVE PairRowsFrom(_, _, _)
PairRowsFrom(bv, n, i) ==
    IF i >= n THEN <<>>
    ELSE [j \in 1..i |-> 2 * bv[i + 1] * bv[j]] \o <<bv[i + 1] * bv[i + 1]>>
         \o PairRowsFrom(bv, n, i + 1)

\* A plausible slip: the offset accumulator is not advanced over an
\* insignificant shell.
NullBasoffStuck(basoff, numbas) == basoff

\* densityValues, the else branch: basoff += numbas.
NullBasoff(basoff, numbas) == basoff + numbas

\* densityValues, first loop, from shell s on: the significant shells'
\* values and global basis indices compacted into the buffers.
RECURSIVE SigLoop(_, _, _, _, _, _, _, _)
SigLoop(list, p, sg, s, nSigBas, basoff, bv, sb) ==
    IF s > Len(list) THEN [nSigBas |-> nSigBas, bv |-> bv, sb |-> sb]
    ELSE LET values == Shell_evaluateXYZ(list, s, p, sg)
             numbas == Shell_nBasis(list[s].kind)
         IN  IF values # NULL
             THEN SigLoop(list, p, sg, s + 1, nSigBas + numbas, basoff + numbas,
                          WriteAt(bv, nSigBas, values),
                          WriteAt(sb, nSigBas, [i \in 1..numbas |-> basoff + i - 1]))
             ELSE SigLoop(list, p, sg, s + 1, nSigBas, NullBasoff(basoff, numbas), bv, sb)

\* A plausible slip: the output buffer is not zeroed before accumulating.
DensityStartStale(old, nden) == old

\* densityValues: m_densityValues[k] = 0.0 for every k < nden.
DensityStart(old, nden) == [k \in 1..nden |-> 0]

\* densityValues, second loop: what is added to m_densityValues[k] for
\* the density matrix D.
DensitySum(bv, sb, nSigBas, D) ==
    SumF([i \in 0..(nSigBas - 1) |->
            LET xi == bv[i + 1]
                ii == sb[i + 1]
                Ti == (ii * (ii + 1)) \div 2
            IN  SumF([j \in 0..(i - 1) |->
                        2 * (2 * xi * bv[j + 1]) * D[Ti + sb[j + 1] + 1]], 0, i - 1)
                + xi * xi * D[Ti + ii + 1]],
         0, nSigBas - 1)

\* A plausible slip: the output buffer is not zeroed before accumulating.
OrbitalStartStale(old, norb) == old

\* orbitalValues: m_orbitalValues[k] = 0.0 for every k < norb.
OrbitalStart(old, norb) == [k \in 1..norb |-> 0]

\* A plausible slip: the offset is advanced over significant shells only.
OrbitalBasoffSigOnly(values, basoff, numbas) ==
    IF values # NULL THEN basoff + numbas ELSE basoff

\* orbitalValues: basoff += numbas, for every shell.
OrbitalBasoff(values, basoff, numbas) == basoff + numbas

\* orbitalValues, the loop from shell s on.
RECURSIVE OrbitalLoop(_, _, _, _, _, _, _, _)
OrbitalLoop(list, p, sg, s, basoff, coef, idx, ov) ==
    IF s > Len(list) THEN ov
    ELSE LET values == Shell_evaluateXYZ(list, s, p, sg)
             numbas == Shell_nBasis(list[s].kind)
         IN  OrbitalLoop(list, p, sg, s + 1, OrbitalBasoff(values, basoff, numbas), coef, idx,
                 IF values # NULL
                 THEN [k \in 1..Len(ov) |->
                          ov[k] + SumF([i \in 0..(numbas - 1) |->
                                          coef[idx[k] + 1][basoff + i + 1] * values[i + 1]],
                                       0, numbas - 1)]
                 ELSE ov)

\* The buffers after a whole evaluation call on the buffers b (a record of
\* the evaluation variables), at grid point p.
AfterShellValues(b, list, p) ==
    [b EXCEPT !.basisValues = ShellValuesFrom(list, p, 1, 0, b.basisValues)]
AfterShellValuesXYZ(b, list, p, sg) ==
    [b EXCEPT !.basisValues = ShellValuesXYZFrom(list, p, sg, 1, 0, b.basisValues)]
AfterShellPairValues(b, list, p) ==
    LET bv == ShellValuesFrom(list, p, 1, 0, b.basisValues)
    IN  [b EXCEPT !.basisValues = bv,
                  !.basisPairValues = WriteAt(b.basisPairValues, 0, PairRowsFrom(bv, Len(bv), 0))]
AfterDensityValues(b, list, p, sg) ==
    LET first == SigLoop(list, p, sg, 1, 0, 0, b.basisValues, b.sigBasis)
        nden  == Len(b.densityVectors)
        start == DensityStart(b.densityValues, nden)
    IN  [b EXCEPT !.basisValues = first.bv,
                  !.sigBasis = first.sb,
                  !.densityValues =
                      [k \in 1..nden |->
                          start[k] + DensitySum(first.bv, first.sb, first.nSigBas,
                                                b.densityVectors[k])]]
AfterOrbitalValues(b, list, p, sg) ==
    [b EXCEPT !.orbitalValues =
        OrbitalLoop(list, p, sg, 1, 0, b.orbitalCoefficients, b.orbitalIndices,
                    OrbitalStart(b.orbitalValues, Len(b.orbitalIndices)))]
\* setDensityVectors and setOrbitalVectors; resize keeps what fits and
\* the new elements are not set.
Resized(old, n) == [k \in 1..n |-> IF k <= Len(old) THEN old[k] ELSE Unset]
AfterSetDensityVectors(b, densityVectors) ==
    [b EXCEPT !.densityVectors = densityVectors,
              !.densityValues = Resized(b.densityValues, Len(densityVectors))]
AfterSetOrbitalVectors(b, coefficients, indices) ==
    [b EXCEPT !.orbitalIndices = indices,
              !.orbitalCoefficients = coefficients,
              !.orbitalValues = Resized(b.orbitalValues, Len(indices))]

\* The evaluation variables as one record, and back.
Buffers ==
    [basisValues |-> m_basisValues, sigBasis |-> m_sigBasis,
     basisPairValues |-> m_basisPairValues,
     densityVectors |-> m_densityVectors, densityValues |-> m_densityValues,
     orbitalIndices |-> m_orbitalIndices, orbitalCoefficients |-> m_orbitalCoefficients,
     orbitalValues |-> m_orbitalValues]
SetBuffers(b) ==
    /\ m_basisValues' = b.basisValues
    /\ m_sigBasis' = b.sigBasis
    /\ m_basisPairValues' = b.basisPairValues
    /\ m_densityVectors' = b.densityVectors
    /\ m_densityValues' = b.densityValues
    /\ m_orbitalIndices' = b.orbitalIndices
    /\ m_orbitalCoefficients' = b.orbitalCoefficients
    /\ m_orbitalValues' = b.orbitalValues

SetFresh(b) ==
    /\ m_basisValues = b.basisValues
    /\ m_sigBasis = b.sigBasis
    /\ m_basisPairValues = b.basisPairValues
    /\ m_densityVectors = b.densityVectors
    /\ m_densityValues = b.densityValues
    /\ m_orbitalIndices = b.orbitalIndices
    /\ m_orbitalCoefficients = b.orbitalCoefficients
    /\ m_orbitalValues = b.orbitalValues

\* The buffers of a freshly constructed container of n basis functions
\* and a pair buffer of t elements; g is what the unset elements hold.
FreshBuffers(n, t, g) ==
    [basisValues |-> [i \in 1..n |-> g], sigBasis |-> [i \in 1..n |-> g],
     basisPairValues |-> [i \in 1..t |-> g],
     densityVectors |-> <<>>, densityValues |-> <<>>,
     orbitalIndices |-> <<>>, orbitalCoefficients |-> <<>>, orbitalValues |-> <<>>]

----------------------------------------------------------------------------
(* The containers evaluated, and the matrices bound to them.               *)

EvalRecords ==
    UNION {{Record(codes, [i \in 1..n |-> 1], [i \in 1..n |-> 1], TRUE) :
               codes \in [1..n -> {0, 1}]} : n \in 0..MaxEvalEntries}

Triangle(n) == (n * (n + 1)) \div 2
\* Packed density matrices with a different value at every position,
\* and of mixed sign.
RampMatrix(n)  == [i \in 1..Triangle(n) |-> i]
MixedMatrix(n) == [i \in 1..Triangle(n) |-> (i % 3) - 1]
DensityLists(n) == {<<RampMatrix(n)>>, <<MixedMatrix(n), RampMatrix(n)>>}

\* The coefficient matrix bound: n + 2 orbital rows over n basis columns,
\* rows 0 .. n-1 the identity and two rows of other coefficients.
Coefficients(n) ==
    [r \in 1..(n + 2) |-> [c \in 1..n |-> IF r <= n THEN (IF r = c THEN 1 ELSE 0)
                                                   ELSE 2 * c - 3 * (r - n)]]
\* The orbital rows requested of it.
OrbitalBindings(n) ==
    {[coefficients |-> Coefficients(n),
      indices |-> IF n = 0 THEN <<1, 0>> ELSE <<n + 1, n - 1, 0>>]}

----------------------------------------------------------------------------
(* SpecEval: evaluation calls, one after another, on a finished container. *)

EvalInit ==
    /\ shellData \in EvalRecords
    /\ pc = "ready"
    /\ shell = Len(shellData.shellTypes)
    /\ LET built == BuildUpTo(shellData, Len(shellData.shellTypes))
           n     == NBasis(built.shells)
       IN  /\ shells = built.shells
           /\ cnt = built.cnt
           /\ m_overlap = (Len(shellData.overlapMatrix) = ((n + 1) * n) \div 2)
           /\ m_nBasis = n
           /\ pairSize = Resize(n).size
           /\ warned = Resize(n).warned
           /\ SetFresh(FreshBuffers(n, U32Val(Resize(n).size), Unset))
    /\ sig \in [1..Len(shells) -> [Points -> BOOLEAN]]
    /\ ret = <<"none">>
    /\ tally = <<>>
    /\ guarded = FALSE
    /\ lock = 0
    /\ th = <<>>

EvalCall(name, p, after) ==
    /\ pc = "ready"
    /\ SetBuffers(after)
    /\ ret' = <<name, p>>
    /\ UNCHANGED <<ctorVars, sig, sizeVars, concVars>>

CallShellValues(p)     == EvalCall("shellValues", p, AfterShellValues(Buffers, shells, p))
CallShellValuesXYZ(p)  == EvalCall("shellValuesXYZ", p, AfterShellValuesXYZ(Buffers, shells, p, sig))
CallShellPairValues(p) == EvalCall("shellPairValues", p, AfterShellPairValues(Buffers, shells, p))
CallDensityValues(p)   == EvalCall("densityValues", p, AfterDensityValues(Buffers, shells, p, sig))
CallOrbitalValues(p)   == EvalCall("orbitalValues", p, AfterOrbitalValues(Buffers, shells, p, sig))
SetDensityVectors(d) ==
    /\ pc = "ready"
    /\ SetBuffers(AfterSetDensityVectors(Buffers, d))
    /\ ret' = <<"setDensityVectors">>
    /\ UNCHANGED <<ctorVars, sig, sizeVars, concVars>>
SetOrbitalVectors(o) ==
    /\ pc = "ready"
    /\ SetBuffers(AfterSetOrbitalVectors(Buffers, o.coefficients, o.indices))
    /\ ret' = <<"setOrbitalVectors">>
    /\ UNCHANGED <<ctorVars, sig, sizeVars, concVars>>

EvalNext ==
    \/ \E p \in Points : CallShellValues(p)
    \/ \E p \in Points : CallShellValuesXYZ(p)
    \/ \E p \in Points : CallShellPairValues(p)
    \/ \E p \in Points : CallDensityValues(p)
    \/ \E p \in Points : CallOrbitalValues(p)
    \/ \E d \in DensityLists(m_nBasis) : SetDensityVectors(d)
    \/ \E o \in OrbitalBindings(m_nBasis) : SetOrbitalVectors(o)

SpecEval == EvalInit /\ [][EvalNext]_vars

----------------------------------------------------------------------------
(* Claims about evaluation (under SpecEval).                               *)

\* The shell that owns global basis index g (0-based, counted over all shells).
Owner(list, g) ==
    CHOOSE s \in 1..Len(list) :
        BasisOffset(list, s) <= g /\ g < BasisOffset(list, s) + Shell_nBasis(list[s].kind)
\* The value of basis function g at grid point p, and whether its shell
\* is significant there.
BasisAt(list, p, g) == Shell_evaluate(list, Owner(list, g), p)[g - BasisOffset(list, Owner(list, g)) + 1]
SigAt(list, sg, p, g) == sg[Owner(list, g)][p]
\* basisValue(point): the value where the shell is significant, else 0.
BasisValue(list, sg, p, g) == IF SigAt(list, sg, p, g) THEN BasisAt(list, p, g) ELSE 0

\* The density the claim gives for the packed matrix D at grid point p.
ClaimedDensity(list, sg, p, D) ==
    LET n == NBasis(list)
        x(g) == BasisAt(list, p, g)
        T(g) == (g * (g + 1)) \div 2
    IN  SumF([g \in 0..(n - 1) |->
                IF ~SigAt(list, sg, p, g) THEN 0
                ELSE x(g) * x(g) * D[T(g) + g + 1]
                     + SumF([h \in 0..(g - 1) |->
                               IF ~SigAt(list, sg, p, h) THEN 0
                               ELSE 2 * (2 * x(g) * x(h)) * D[T(g) + h + 1]],
                            0, g - 1)],
             0, n - 1)

\* C1: densityValues(x,y,z) returns for every bound density matrix D_k the
\* sum over the significant basis entries, each under its global basis
\* index counted over all shells, of x_i*x_i*D_k[Ti+ii] and, for each pair
\* j < i of them, 2*(2*x_i*x_j)*D_k[Ti+jj], with Ti = ii*(ii+1)/2; for one
\* S shell and D[0] = 1 that is basisValue(point)^2.
C1_DensityValues ==
    ret[1] = "densityValues" =>
        /\ Len(m_densityValues) = Len(m_densityVectors)
        /\ \A k \in 1..Len(m_densityVectors) :
              /\ m_densityValues[k] = ClaimedDensity(shells, sig, ret[2], m_densityVectors[k])
              /\ (NBasis(shells) = 1 /\ m_densityVectors[k][1] = 1) =>
                    m_densityValues[k] = BasisValue(shells, sig, ret[2], 0)
                                         * BasisValue(shells, sig, ret[2], 0)

\* C1 witness: a density taken where a P shell is insignificant and the S
\* shell after it is not, so the S function keeps global index 3.
C1_Witness ==
    /\ ret[1] = "densityValues"
    /\ Len(shells) = 2 /\ shells[1].kind = "P" /\ shells[2].kind = "S"
    /\ ~sig[1][ret[2]] /\ sig[2][ret[2]]
    /\ Len(m_densityVectors) = 2
    /\ m_densityValues[2] = BasisAt(shells, ret[2], 3) * BasisAt(shells, ret[2], 3) * 10
    /\ m_densityValues[2] # 0

\* C2: orbitalValues(x,y,z) returns one entry per requested orbital index,
\* entry k the sum over the basis functions of the significant shells of
\* coefficient[indices[k]][global index] * value, the global index counted
\* over all shells; where the requested row is a row of the identity the
\* entry is basisValue(point)[indices[k]].
C2_OrbitalValues ==
    ret[1] = "orbitalValues" =>
        LET n == NBasis(shells)
        IN  /\ Len(m_orbitalValues) = Len(m_orbitalIndices)
            /\ \A k \in 1..Len(m_orbitalIndices) :
                  LET row == m_orbitalCoefficients[m_orbitalIndices[k] + 1]
                  IN  /\ m_orbitalValues[k] =
                            SumF([g \in 0..(n - 1) |->
                                     IF SigAt(shells, sig, ret[2], g)
                                     THEN row[g + 1] * BasisAt(shells, ret[2], g) ELSE 0],
                                 0, n - 1)
                      /\ (m_orbitalIndices[k] < n
                          /\ row = [c \in 1..n |-> IF c = m_orbitalIndices[k] + 1 THEN 1 ELSE 0])
                            => m_orbitalValues[k] =
                                  BasisValue(shells, sig, ret[2], m_orbitalIndices[k])

\* C2 witness: orbitals taken where the first shell, a P, is insignificant
\* and the S after it is not; the identity row of the last basis function
\* returns its value.
C2_Witness ==
    /\ ret[1] = "orbitalValues"
    /\ Len(shells) = 2 /\ shells[1].kind = "P" /\ shells[2].kind = "S"
    /\ ~sig[1][ret[2]] /\ sig[2][ret[2]]
    /\ m_orbitalIndices = <<5, 3, 0>>
    /\ m_orbitalValues[2] = BasisAt(shells, ret[2], 3)
    /\ m_orbitalValues[2] # 0
    /\ m_orbitalValues[3] = 0

\* C3: shellValues(x,y,z) returns a vector of length nBasis that holds,
\* from each shell's global offset on, the shell's values where its
\* evaluation is non-null and zeros where it is null.
C3_ShellValuesXYZ ==
    ret[1] = "shellValuesXYZ" =>
        /\ Len(m_basisValues) = NBasis(shells)
        /\ \A s \in 1..Len(shells) :
              \A i \in 1..Shell_nBasis(shells[s].kind) :
                  m_basisValues[BasisOffset(shells, s) + i] =
                      IF sig[s][ret[2]] THEN Shell_evaluate(shells, s, ret[2])[i] ELSE 0
        /\ (\A s \in 1..Len(shells) : ~sig[s][ret[2]]) =>
              m_basisValues = [g \in 1..NBasis(shells) |-> 0]

\* C3 witness: values taken where the first shell, a P, is insignificant
\* and the S after it is not.
C3_Witness ==
    /\ ret[1] = "shellValuesXYZ"
    /\ Len(shells) = 2 /\ shells[1].kind = "P" /\ shells[2].kind = "S"
    /\ ~sig[1][ret[2]] /\ sig[2][ret[2]]
    /\ m_basisValues = <<0, 0, 0, Shell_evaluate(shells, 2, ret[2])[1]>>
    /\ m_basisValues[4] # 0

\* A freshly constructed container of these shells with the present
\* density and orbital bindings.
FreshBound ==
    AfterSetOrbitalVectors(
        AfterSetDensityVectors(FreshBuffers(m_nBasis, U32Val(pairSize), Unset), m_densityVectors),
        m_orbitalCoefficients, m_orbitalIndices)

\* C10: whatever calls came before, shellValues(x,y,z), densityValues and
\* orbitalValues at a point return what they return as the first call on a
\* freshly constructed container with the same shells and bindings.
C10_HistoryIndependent ==
    /\ ret[1] = "shellValuesXYZ" =>
          m_basisValues = AfterShellValuesXYZ(FreshBound, shells, ret[2], sig).basisValues
    /\ ret[1] = "densityValues" =>
          m_densityValues = AfterDensityValues(FreshBound, shells, ret[2], sig).densityValues
    /\ ret[1] = "orbitalValues" =>
          m_orbitalValues = AfterOrbitalValues(FreshBound, shells, ret[2], sig).orbitalValues

\* C10 witness: a density returned while the basis-value and pair buffers
\* still hold what earlier calls left, which a fresh container would not hold.
C10_Witness ==
    /\ ret[1] = "densityValues"
    /\ Len(m_densityVectors) = 2
    /\ m_densityValues[1] # 0
    /\ m_basisValues # AfterDensityValues(FreshBound, shells, ret[2], sig).basisValues
    /\ m_basisPairValues # FreshBound.basisPairValues
    /\ m_orbitalValues # FreshBound.orbitalValues

----------------------------------------------------------------------------
(* SpecSize: resize() on long shell lists.  nBasis() reads only the kinds  *)
(* of the shells, so a list is held here as its number of shells of each   *)
(* kind (the tally dump() takes), which puts lists of 65536 shells in reach.*)

MaxFew == 20        \* the short lists hold up to this many S shells

\* ShellList::nBasis() on a list held as a tally.  The tallies used keep
\* the sum below 2^31.
NBasisOfTally(t) ==
    t["S"] * Shell_nBasis("S") + t["P"] * Shell_nBasis("P") + t["D5"] * Shell_nBasis("D5")
    + t["D6"] * Shell_nBasis("D6") + t["F7"] * Shell_nBasis("F7")
    + t["F10"] * Shell_nBasis("F10") + t["G9"] * Shell_nBasis("G9")
    + t["G15"] * Shell_nBasis("G15")

\* Short lists, and lists whose basis count is near 2^16 and near 2^16.5,
\* where nBasis*(nBasis+1) passes 2^32 and 2^33.
Tallies ==
    {[k \in AngularMomentum |->
         CASE k = "S" -> nS [] k = "P" -> nP [] k = "G15" -> nG [] OTHER -> 0] :
        nS \in (0..MaxFew) \cup {65521, 65535, 65536, 65537, 92681, 92682},
        nP \in {0, 1}, nG \in {0, 1}}

SizeInit ==
    /\ tally \in Tallies
    /\ pc = "built"
    /\ shellData = <<>>
    /\ shell = 0
    /\ cnt = 0
    /\ shells = <<>>
    /\ m_overlap = FALSE
    /\ m_nBasis = 0
    /\ pairSize = <<0, 0>>
    /\ warned = FALSE
    /\ ret = <<"none">>
    /\ sig = <<>>
    /\ m_basisValues = <<>>
    /\ m_sigBasis = <<>>
    /\ m_basisPairValues = <<>>
    /\ m_densityVectors = <<>>
    /\ m_densityValues = <<>>
    /\ m_orbitalIndices = <<>>
    /\ m_orbitalCoefficients = <<>>
    /\ m_orbitalValues = <<>>
    /\ guarded = FALSE
    /\ lock = 0
    /\ th = <<>>

\* resize(), called at the end of construction.
CallResize ==
    /\ pc = "built"
    /\ LET n == NBasisOfTally(tally)
       IN  /\ m_nBasis' = n
           /\ pairSize' = Resize(n).size
           /\ warned' = Resize(n).warned
    /\ pc' = "ready"
    /\ UNCHANGED <<shellData, shell, cnt, shells, m_overlap, ret, evalVars, sizeVars, concVars>>

\* nBasis() on the sized container.
CallNBasisOfTally ==
    /\ pc = "ready"
    /\ ret' = <<"nBasis", NBasisOfTally(tally)>>
    /\ UNCHANGED <<ctorVars, evalVars, sizeVars, concVars>>

SizeNext == CallResize \/ CallNBasisOfTally

SpecSize == SizeInit /\ [][SizeNext]_vars

\* Whether the 32-bit value u is the number a * b, for a > 0, without
\* forming the product.
IsProduct(u, a, b) ==
    /\ u[1] < U32Half \div 2
    /\ U32Val(u) % a = 0
    /\ U32Val(u) \div a = b

\* Whether the 32-bit value u is n*(n+1)/2.
IsTriangle(u, n) ==
    IF n = 0 THEN u = <<0, 0>>
    ELSE IF n % 2 = 0 THEN IsProduct(u, n \div 2, n + 1)
                      ELSE IsProduct(u, n, (n + 1) \div 2)

\* C8: after resize() the basis-pair buffer has size nBasis*(nBasis+1)/2
\* (0 for nBasis 0, 6 for nBasis 3) and the parity-correction branch was
\* not taken, for every nBasis, also where nBasis*(nBasis+1) wraps.
C8_AsStated ==
    pc = "ready" =>
        /\ IsTriangle(pairSize, m_nBasis)
        /\ ~warned
        /\ m_nBasis = 0 => pairSize = <<0, 0>>
        /\ m_nBasis = 3 => pairSize = <<0, 6>>

\* The part of C8 that holds of the code: the parity-correction branch is
\* never taken, and the size is the triangular number while nBasis < 2^16.
C8_ParityAndSmall ==
    pc = "ready" =>
        /\ ~warned
        /\ TwiceU32(pairSize) = MulU32(ToU32(m_nBasis), IncU32(ToU32(m_nBasis)))
        /\ m_nBasis < U32Half => IsTriangle(pairSize, m_nBasis)

----------------------------------------------------------------------------
(* SpecConc: densityValues called on one instance from independent         *)
(* threads, thread t for grid point t.  A call advances one statement of   *)
(* lines 318-368 at a time, so that the calls interleave on the shared     *)
(* buffers; numbas, nSigBas, basoff, xi, ii, Ti and the loop counters are  *)
(* the call's locals.  Where guarded holds the callers take a lock around  *)
(* each call, the external mutual exclusion the class leaves to them.      *)

Threads == {1, 2}

\* The containers the threads share: an S shell followed by an S or a P
\* shell, on one atom.
ConcRecords == {Record(<<0, code>>, <<1, 1>>, <<1, 1>>, TRUE) : code \in {0, 1}}

\* The locals of a call that has not started.
IdleCall ==
    [pc |-> "idle", s |-> 0, i |-> 0, j |-> 0, nSigBas |-> 0, basoff |-> 0,
     xi |-> 0, ii |-> 0, Ti |-> 0, result |-> <<>>]

ConcInit ==
    /\ shellData \in ConcRecords
    /\ pc = "ready"
    /\ shell = Len(shellData.shellTypes)
    /\ LET built == BuildUpTo(shellData, Len(shellData.shellTypes))
           n     == NBasis(built.shells)
       IN  /\ shells = built.shells
           /\ cnt = built.cnt
           /\ m_overlap = (Len(shellData.overlapMatrix) = ((n + 1) * n) \div 2)
           /\ m_nBasis = n
           /\ pairSize = Resize(n).size
           /\ warned = Resize(n).warned
           /\ SetFresh(AfterSetDensityVectors(
                  FreshBuffers(n, U32Val(Resize(n).size), Unset), <<RampMatrix(n)>>))
    /\ sig \in [1..Len(shells) -> [Points -> BOOLEAN]]
    /\ ret = <<"none">>
    /\ tally = <<>>
    /\ guarded \in BOOLEAN
    /\ lock = 0
    /\ th = [t \in Threads |-> IdleCall]

ConcFrame ==
    UNCHANGED <<ctorVars, ret, sig, m_basisPairValues, m_densityVectors, m_orbitalIndices,
                m_orbitalCoefficients, m_orbitalValues, sizeVars, guarded>>

\* The call is entered: nSigBas(0), basoff(0), and the iterator at begin().
Begin(t) ==
    /\ th[t].pc \in {"idle", "done"}
    /\ IF guarded THEN lock = 0 /\ lock' = t ELSE lock' = lock
    /\ th' = [th EXCEPT ![t] = [IdleCall EXCEPT !.pc = "shells", !.s = 1]]
    /\ UNCHANGED <<m_basisValues, m_sigBasis, m_densityValues>>
    /\ ConcFrame

\* First loop, one iteration of the inner for of a significant shell, or
\* the else branch of an insignificant one.
ShellStep(t) ==
    /\ th[t].pc = "shells"
    /\ th[t].s <= Len(shells)
    /\ LET c      == th[t]
           values == Shell_evaluateXYZ(shells, c.s, t, sig)
           numbas == Shell_nBasis(shells[c.s].kind)
           last   == c.i + 1 = numbas
       IN  IF values # NULL
           THEN /\ m_basisValues' = WriteAt(m_basisValues, c.nSigBas, <<values[c.i + 1]>>)
                /\ m_sigBasis' = WriteAt(m_sigBasis, c.nSigBas, <<c.basoff>>)
                /\ th' = [th EXCEPT ![t] =
                            [c EXCEPT !.i = IF last THEN 0 ELSE c.i + 1,
                                      !.s = IF last THEN c.s + 1 ELSE c.s,
                                      !.nSigBas = c.nSigBas + 1,
                                      !.basoff = c.basoff + 1]]
           ELSE /\ th' = [th EXCEPT ![t] =
                            [c EXCEPT !.s = c.s + 1,
                                      !.basoff = NullBasoff(c.basoff, numbas)]]
                /\ UNCHANGED <<m_basisValues, m_sigBasis>>
    /\ UNCHANGED <<m_densityValues, lock>>
    /\ ConcFrame

\* The iterator is at end(): the output is zeroed.
ZeroStep(t) ==
    /\ th[t].pc = "shells"
    /\ th[t].s > Len(shells)
    /\ m_densityValues' = DensityStart(m_densityValues, Len(m_densityVectors))
    /\ th' = [th EXCEPT ![t].pc = "outer", ![t].i = 0]
    /\ UNCHANGED <<m_basisValues, m_sigBasis, lock>>
    /\ ConcFrame

\* Second loop, head of an iteration: xi, ii and Ti are read.
OuterStep(t) ==
    /\ th[t].pc = "outer"
    /\ th[t].i < th[t].nSigBas
    /\ LET ii == m_sigBasis[th[t].i + 1]
       IN  th' = [th EXCEPT ![t].pc = "inner", ![t].j = 0,
                            ![t].xi = m_basisValues[th[t].i + 1],
                            ![t].ii = ii,
                            ![t].Ti = (ii * (ii + 1)) \div 2]
    /\ UNCHANGED <<m_basisValues, m_sigBasis, m_densityValues, lock>>
    /\ ConcFrame

\* Second loop, one iteration over j < i.
InnerStep(t) ==
    /\ th[t].pc = "inner"
    /\ th[t].j < th[t].i
    /\ LET c   == th[t]
           xij == 2 * c.xi * m_basisValues[c.j + 1]
           jj  == m_sigBasis[c.j + 1]
       IN  m_densityValues' =
               [k \in 1..Len(m_densityVectors) |->
                   m_densityValues[k] + 2 * xij * m_densityVectors[k][c.Ti + jj + 1]]
    /\ th' = [th EXCEPT ![t].j = th[t].j + 1]
    /\ UNCHANGED <<m_basisValues, m_sigBasis, lock>>
    /\ ConcFrame

\* Second loop, the diagonal term that ends an iteration over i.
DiagStep(t) ==
    /\ th[t].pc = "inner"
    /\ th[t].j >= th[t].i
    /\ LET c == th[t]
       IN  m_densityValues' =
               [k \in 1..Len(m_densityVectors) |->
                   m_densityValues[k] + c.xi * c.xi * m_densityVectors[k][c.Ti + c.ii + 1]]
    /\ th' = [th EXCEPT ![t].pc = "outer", ![t].i = th[t].i + 1]
    /\ UNCHANGED <<m_basisValues, m_sigBasis, lock>>
    /\ ConcFrame

\* return m_densityValues: the caller reads the buffer it was handed.
Return(t) ==
    /\ th[t].pc = "outer"
    /\ th[t].i >= th[t].nSigBas
    /\ th' = [th EXCEPT ![t].pc = "done", ![t].result = m_densityValues]
    /\ lock' = IF guarded THEN 0 ELSE lock
    /\ UNCHANGED <<m_basisValues, m_sigBasis, m_densityValues>>
    /\ ConcFrame

ConcNext ==
    \E t \in Threads :
        \/ Begin(t)
        \/ ShellStep(t)
        \/ ZeroStep(t)
        \/ OuterStep(t)
        \/ InnerStep(t)
        \/ DiagStep(t)
        \/ Return(t)

SpecConc == ConcInit /\ [][ConcNext]_vars

\* What densityValues returns for grid point p when the call runs alone on
\* an instance of its own with the same shells and density matrices.
Alone(p) ==
    AfterDensityValues(
        AfterSetDensityVectors(
            FreshBuffers(m_nBasis, U32Val(pairSize), Unset), m_densityVectors),
        shells, p, sig).densityValues

\* C7: where every evaluation call runs under mutual exclusion, each call
\* returns the value the same call returns when run alone; only calls that
\* interleave on the instance can return anything else.
C7_ExclusionIsSafe ==
    \A t \in Threads :
        (guarded /\ th[t].pc = "done") => th[t].result = Alone(t)

\* Two calls for different grid points interleaved without exclusion, and
\* one of them has returned a value that is not its value when run alone.
C7_Witness ==
    /\ ~guarded
    /\ \E t \in Threads : th[t].pc = "done" /\ th[t].result # Alone(t)

=============================================================================
